---- MODULE Spec2Model ----
(***************************************************************************)
(* Model of src/db/db.py: class Database, a persistence layer over one     *)
(* SQLite file.  Every repository operation runs one statement through     *)
(* execute_query (tenacity retry around cursor() around connection()).     *)
(* Several callers use the same file, each call on a connection of its     *)
(* own; SQLite's file locks are the only coordination between them.        *)
(***************************************************************************)
EXTENDS Integers, Sequences, FiniteSets, TLC

\* ------------------------------------------------------------- bounds
\* Cap on the rows of one table (guards of Call); not a program constant.
MaxRows == 2

\* stop_after_attempt(3), db.py line 62.
MaxAttempts == 3

\* Concurrent callers of the one Database object.
Callers == {"c1", "c2"}

\* Values the callers pass in.
Logins == {"alice", "bob"}
Passwords == {"p1", "p2"}
UserIds == {1, 2}
Amounts == {10, -3}
TgIds == {42, 43}
Messages == {"paid"}

\* ------------------------------------------------------------- values
\* One call of a repository method: its name and its arguments (the
\* arguments a method does not take keep the neutral value).
NoOp ==
    [name |-> "none", login |-> "", password |-> "", user_id |-> 0,
     amount |-> 0, tg_user_id |-> 0, transaction_id |-> 0, message |-> ""]

UserOps ==
    {[NoOp EXCEPT !.name = "add_user", !.login = l, !.password = p] :
        l \in Logins, p \in Passwords}
    \cup {[NoOp EXCEPT !.name = "get_user", !.login = l] : l \in Logins}

LedgerOps ==
    {[NoOp EXCEPT !.name = "add_transaction", !.user_id = u, !.amount = a] :
        u \in UserIds, a \in Amounts}
    \cup {[NoOp EXCEPT !.name = "get_transactions", !.user_id = u] : u \in UserIds}

SessionOps ==
    {[NoOp EXCEPT !.name = "add_session", !.tg_user_id = t, !.login = l] :
        t \in TgIds, l \in Logins}
    \cup {[NoOp EXCEPT !.name = "get_active_session", !.tg_user_id = t] : t \in TgIds}
    \cup {[NoOp EXCEPT !.name = "deactivate_session", !.tg_user_id = t] : t \in TgIds}

PopupOps ==
    {[NoOp EXCEPT !.name = "add_popup_history", !.user_id = u,
                  !.transaction_id = t, !.message = m] :
        u \in UserIds, t \in UserIds, m \in Messages}
    \cup {[NoOp EXCEPT !.name = "get_popup_history", !.user_id = u] : u \in UserIds}

\* The four tables of initialize_db, each a sequence of rows in rowid order.
EmptyDb ==
    [users |-> <<>>, users_transaction |-> <<>>,
     users_login_state |-> <<>>, all_transaction_popup_history |-> <<>>]

\* An exception: its class, the class of the exception that was being
\* handled when it was raised (Python's __context__; for tenacity's
\* RetryError the exception of the last attempt), the call that raised the
\* store's error and that error's message.
NoExc == [cls |-> "", context |-> "", at |-> "", msg |-> ""]

Exc(cls, context, at, msg) ==
    [cls |-> cls, context |-> context, at |-> at, msg |-> msg]

Locked == "database is locked"

\* The connection and cursor of one attempt (connection(), cursor()).
\*   cursor: "none" | "open" | "closed";  lock: SQLite's lock held by the
\*   connection: "none" | "shared" | "reserved" | "pending";
\*   inTxn/image: the open transaction and the store as it would be after
\*   its commit;  rows: the rows the statement produced.
NoConn ==
    [open |-> FALSE, cursor |-> "none", lock |-> "none", inTxn |-> FALSE,
     image |-> EmptyDb, rows |-> <<>>]

NoRes == [status |-> "none", exc |-> NoExc]

NoOut == [status |-> "none", exc |-> NoExc, value |-> <<>>]

VARIABLES
    schema,    \* the tables of initialize_db exist in the file
    db,        \* the committed contents of the file
    pc,        \* where each caller stands
    op,        \* the repository call each caller is in
    attempt,   \* tenacity's attempt_number of the running execute_query
    fails,     \* the exception each finished attempt of this call raised
    conn,      \* the connection of the running attempt
    exc,       \* the exception in flight out of the with-body
    res,       \* how execute_query ended: returned or raised
    out        \* how the repository method ended

vars == <<schema, db, pc, op, attempt, fails, conn, exc, res, out>>

\* ------------------------------------------------------ the statements
IsInsert(o) ==
    o.name \in {"add_user", "add_transaction", "add_session", "add_popup_history"}

IsWrite(o) == IsInsert(o) \/ o.name = "deactivate_session"

\* The table a call's statement is on.
TableOf(o) ==
    CASE o.name \in {"add_user", "get_user"} -> "users"
      [] o.name \in {"add_transaction", "get_transactions"} -> "users_transaction"
      [] o.name \in {"add_session", "get_active_session", "deactivate_session"}
            -> "users_login_state"
      [] OTHER -> "all_transaction_popup_history"

\* The users table declared without UNIQUE on login.
UniqueViolationOff(users, login) == FALSE

\* login TEXT NOT NULL UNIQUE (line 96): the insert is refused when a row
\* with this login exists.
UniqueViolation(users, login) ==
    \E i \in 1..Len(users) : users[i].login = login

\* The row an INSERT adds: id INTEGER PRIMARY KEY AUTOINCREMENT is the next
\* rowid (no row is ever deleted); the columns the statement does not name
\* take the schema's defaults (balance 0.0, active 1).
NewRow(o, table) ==
    CASE o.name = "add_user" ->
            [id |-> Len(table) + 1, login |-> o.login, password |-> o.password,
             balance |-> 0]
      [] o.name = "add_transaction" ->
            [id |-> Len(table) + 1, user_id |-> o.user_id, amount |-> o.amount]
      [] o.name = "add_session" ->
            [id |-> Len(table) + 1, tg_user_id |-> o.tg_user_id,
             login |-> o.login, active |-> TRUE]
      [] OTHER ->
            [id |-> Len(table) + 1, user_id |-> o.user_id,
             transaction_id |-> o.transaction_id, message |-> o.message]

\* The UPDATE reaching only the most recent session of the external id.
DeactivateLast(sessions, tg) ==
    LET hits == {i \in 1..Len(sessions) : sessions[i].tg_user_id = tg}
    IN [i \in 1..Len(sessions) |->
          IF i \in hits /\ \A j \in hits : j <= i
          THEN [sessions[i] EXCEPT !.active = FALSE]
          ELSE sessions[i]]

\* The UPDATE flipping the flag (SET active = NOT active).
DeactivateToggle(sessions, tg) ==
    [i \in 1..Len(sessions) |->
        IF sessions[i].tg_user_id = tg
        THEN [sessions[i] EXCEPT !.active = ~@]
        ELSE sessions[i]]

\* The UPDATE with a WHERE clause that matches no row.
DeactivateNone(sessions, tg) == sessions

\* The UPDATE without its WHERE clause.
DeactivateAll(sessions, tg) ==
    [i \in 1..Len(sessions) |-> [sessions[i] EXCEPT !.active = FALSE]]

\* UPDATE users_login_state SET active = 0 WHERE tg_user_id = ? (line 217).
Deactivate(sessions, tg) ==
    [i \in 1..Len(sessions) |->
        IF sessions[i].tg_user_id = tg
        THEN [sessions[i] EXCEPT !.active = FALSE]
        ELSE sessions[i]]

\* The store after a statement that appends a row to the table of call o.
Inserted(o, image) ==
    [image EXCEPT ![TableOf(o)] =
        Append(image[TableOf(o)], NewRow(o, image[TableOf(o)]))]

\* add_transaction written as INSERT OR REPLACE with a fixed id: the new
\* row takes the place of the ledger.
ExecWriteReplaces(o, image) ==
    IF o.name = "add_user" /\ UniqueViolation(image.users, o.login)
    THEN [err |-> "IntegrityError", image |-> image]
    ELSE IF o.name = "deactivate_session"
    THEN [err |-> "",
          image |-> [image EXCEPT !.users_login_state =
                        Deactivate(image.users_login_state, o.tg_user_id)]]
    ELSE IF o.name = "add_transaction"
    THEN [err |-> "",
          image |-> [image EXCEPT !.users_transaction = <<NewRow(o, <<>>)>>]]
    ELSE [err |-> "", image |-> Inserted(o, image)]

\* add_transaction also crediting the amount to the user's balance.
ExecWriteCredits(o, image) ==
    IF o.name = "add_user" /\ UniqueViolation(image.users, o.login)
    THEN [err |-> "IntegrityError", image |-> image]
    ELSE IF o.name = "deactivate_session"
    THEN [err |-> "",
          image |-> [image EXCEPT !.users_login_state =
                        Deactivate(image.users_login_state, o.tg_user_id)]]
    ELSE IF o.name = "add_transaction"
    THEN [err |-> "",
          image |-> [Inserted(o, image) EXCEPT !.users =
                        [i \in 1..Len(image.users) |->
                            IF image.users[i].id = o.user_id
                            THEN [image.users[i] EXCEPT !.balance = @ + o.amount]
                            ELSE image.users[i]]]]
    ELSE [err |-> "", image |-> Inserted(o, image)]

\* A writing statement on the store `image`: the error it raises ("" for
\* none) and the store after it.  Foreign keys are declared in the schema
\* but the connection never turns their enforcement on (lines 32-33).
ExecWrite(o, image) ==
    IF o.name = "add_user" /\ UniqueViolation(image.users, o.login)
    THEN [err |-> "IntegrityError", image |-> image]
    ELSE IF o.name = "deactivate_session"
    THEN [err |-> "",
          image |-> [image EXCEPT !.users_login_state =
                        Deactivate(image.users_login_state, o.tg_user_id)]]
    ELSE [err |-> "", image |-> Inserted(o, image)]

\* The rows a SELECT produces, in rowid order.
ExecRead(o, image) ==
    CASE o.name = "get_user" ->
            LET T(r) == r.login = o.login IN SelectSeq(image.users, T)
      [] o.name = "get_transactions" ->
            LET T(r) == r.user_id = o.user_id
            IN SelectSeq(image.users_transaction, T)
      [] o.name = "get_active_session" ->
            LET T(r) == r.tg_user_id = o.tg_user_id /\ r.active
            IN SelectSeq(image.users_login_state, T)
      [] OTHER ->
            LET T(r) == r.user_id = o.user_id
            IN SelectSeq(image.all_transaction_popup_history, T)

\* ------------------------------------------------------- the wrapper
\* cursor(), lines 51-58: the handler rolls back and then logs
\* cursor.statement and cursor.parameters.  sqlite3.Cursor has neither
\* attribute, so evaluating the log arguments raises AttributeError inside
\* the handler; no sibling except clause catches it, and it leaves cursor()
\* in place of the store's error, which stays on it as its context.
CursorExcept(e) == Exc("AttributeError", e.cls, e.at, e.msg)

\* execute_query, lines 75-86: every except clause logs and raises the
\* exception it caught.
ExecuteQueryExcept(e) == e

\* The retry decorator without its retry= argument: tenacity's default
\* retries on every exception.
RetryIfAny(e) == TRUE

\* retry=retry_if_exception_type(sqlite3.OperationalError), line 62.
RetryIf(e) == e.cls = "OperationalError"

\* The stop condition one attempt late.
StopAfterAttemptLate(n) == n >= MaxAttempts + 1

\* stop=stop_after_attempt(3), line 62.
StopAfterAttempt(n) == n >= MaxAttempts

\* tenacity after a failed attempt, line 62: an exception the predicate does
\* not select is raised as it is; a selected one is retried after
\* wait_fixed(2) unless the stop condition holds, and then tenacity raises
\* its own RetryError around the last attempt (reraise is not set).
Tenacity(e, n) ==
    IF ~RetryIf(e) THEN [again |-> FALSE, exc |-> e]
    ELSE IF StopAfterAttempt(n)
         THEN [again |-> FALSE, exc |-> Exc("RetryError", e.cls, e.at, e.msg)]
         ELSE [again |-> TRUE, exc |-> e]

\* SQLite's locks: a writing statement needs the RESERVED lock, which one
\* connection holds at a time; a reading statement is refused while a
\* connection waits to commit (PENDING); a commit needs every other
\* connection's read (SHARED) to be over.
WriterBusy(c) == \E d \in Callers \ {c} : conn[d].lock \in {"reserved", "pending"}

ReaderBusy(c) == \E d \in Callers \ {c} : conn[d].lock = "pending"

CommitBusy(c) == \E d \in Callers \ {c} : conn[d].lock = "shared"

\* An attempt ended with exception e leaving cursor()/connection(): what
\* execute_query and tenacity make of it.
AttemptFailed(c, e) ==
    LET t == Tenacity(ExecuteQueryExcept(e), attempt[c])
    IN /\ fails' = [fails EXCEPT ![c] = Append(@, e)]
       /\ IF t.again
          THEN /\ pc' = [pc EXCEPT ![c] = "connect"]
               /\ attempt' = [attempt EXCEPT ![c] = @ + 1]
               /\ res' = res
          ELSE /\ pc' = [pc EXCEPT ![c] = "after"]
               /\ attempt' = attempt
               /\ res' = [res EXCEPT ![c] = [status |-> "raised", exc |-> t.exc]]

\* ------------------------------------------------------------ actions
Init ==
    /\ schema = FALSE
    /\ db = EmptyDb
    /\ pc = [c \in Callers |-> "idle"]
    /\ op = [c \in Callers |-> NoOp]
    /\ attempt = [c \in Callers |-> 0]
    /\ fails = [c \in Callers |-> <<>>]
    /\ conn = [c \in Callers |-> NoConn]
    /\ exc = [c \in Callers |-> NoExc]
    /\ res = [c \in Callers |-> NoRes]
    /\ out = [c \in Callers |-> NoOut]

\* initialize_db, lines 88-128: CREATE TABLE IF NOT EXISTS for the four
\* tables; rows already there stay.  A store without tables holds no rows
\* and no connection can hold a lock on it, so the call is one step.
InitializeDb(c) ==
    /\ pc[c] = "idle"
    /\ schema' = TRUE
    /\ UNCHANGED <<db, pc, op, attempt, fails, conn, exc, res, out>>

\* Calls in progress that insert into the table of call o.
Inserting(o) ==
    {d \in Callers : pc[d] # "idle" /\ IsInsert(op[d]) /\ TableOf(op[d]) = TableOf(o)}

\* A caller enters a repository method, which calls execute_query: the
\* first attempt is about to start.  (The guard keeps every table within
\* MaxRows rows.)
Call(c, o) ==
    /\ pc[c] = "idle"
    /\ IsInsert(o) => Len(db[TableOf(o)]) + Cardinality(Inserting(o)) < MaxRows
    /\ pc' = [pc EXCEPT ![c] = "connect"]
    /\ op' = [op EXCEPT ![c] = o]
    /\ attempt' = [attempt EXCEPT ![c] = 1]
    /\ fails' = [fails EXCEPT ![c] = <<>>]
    /\ res' = [res EXCEPT ![c] = NoRes]
    /\ out' = [out EXCEPT ![c] = NoOut]
    /\ UNCHANGED <<schema, db, conn, exc>>

\* connection() line 32 and cursor() line 47: sqlite3.connect opens the
\* file, or raises OperationalError when it cannot be opened; that error is
\* raised before cursor()'s try block is entered.
Connect(c) ==
    /\ pc[c] = "connect"
    /\ \E opened \in BOOLEAN :
         IF opened
         THEN /\ conn' = [conn EXCEPT ![c] = [NoConn EXCEPT !.open = TRUE,
                                                            !.cursor = "open"]]
              /\ pc' = [pc EXCEPT ![c] = "execute"]
              /\ UNCHANGED <<attempt, fails, res>>
         ELSE /\ conn' = conn
              /\ AttemptFailed(c, Exc("OperationalError", "", "connect",
                                      "unable to open database file"))
    /\ UNCHANGED <<schema, db, op, exc, out>>

\* cursor.execute(query, params), line 73.
Execute(c) ==
    /\ pc[c] = "execute"
    /\ LET o == op[c]
           w == ExecWrite(o, db)
           rows == ExecRead(o, db)
           Raise(cls, msg, lock, txn) ==
               /\ conn' = [conn EXCEPT ![c].lock = lock, ![c].inTxn = txn,
                                        ![c].image = IF txn THEN db ELSE EmptyDb]
               /\ exc' = [exc EXCEPT ![c] = Exc(cls, "", "execute", msg)]
               /\ pc' = [pc EXCEPT ![c] = "except"]
       IN IF ~schema
          THEN Raise("OperationalError", "no such table", "none", FALSE)
          ELSE IF IsWrite(o)
          THEN IF WriterBusy(c)
               THEN Raise("OperationalError", Locked, "none", TRUE)
               ELSE IF w.err # ""
               THEN Raise(w.err, "UNIQUE constraint failed", "reserved", TRUE)
               ELSE /\ conn' = [conn EXCEPT ![c].lock = "reserved",
                                            ![c].inTxn = TRUE,
                                            ![c].image = w.image]
                    /\ pc' = [pc EXCEPT ![c] = "exit"]
                    /\ exc' = exc
          ELSE IF ReaderBusy(c)
               THEN Raise("OperationalError", Locked, "none", FALSE)
               ELSE /\ conn' = [conn EXCEPT
                                  ![c].lock = IF rows = <<>> THEN "none" ELSE "shared",
                                  ![c].rows = rows]
                    /\ pc' = [pc EXCEPT ![c] = "exit"]
                    /\ exc' = exc
    /\ UNCHANGED <<schema, db, op, attempt, fails, res, out>>

\* Leaving the with-body normally (return cursor, line 74): conn.commit()
\* line 50, cursor.close() line 60, conn.close() line 37; execute_query then
\* returns the cursor.  A commit that finds another connection reading
\* raises OperationalError inside cursor()'s try block.
Commit(c) ==
    /\ pc[c] = "exit"
    /\ IF conn[c].inTxn /\ CommitBusy(c)
       THEN /\ conn' = [conn EXCEPT ![c].lock = "pending"]
            /\ exc' = [exc EXCEPT ![c] = Exc("OperationalError", "", "commit", Locked)]
            /\ pc' = [pc EXCEPT ![c] = "except"]
            /\ UNCHANGED <<db, res>>
       ELSE /\ db' = IF conn[c].inTxn THEN conn[c].image ELSE db
            /\ conn' = [conn EXCEPT ![c].open = FALSE, ![c].cursor = "closed",
                                    ![c].lock = "none", ![c].inTxn = FALSE,
                                    ![c].image = EmptyDb]
            /\ res' = [res EXCEPT ![c] = [status |-> "ok", exc |-> NoExc]]
            /\ pc' = [pc EXCEPT ![c] = "after"]
            /\ exc' = exc
    /\ UNCHANGED <<schema, op, attempt, fails, out>>

\* The handler committing where it should roll back.
HandlerCommits(c) ==
    /\ pc[c] = "except"
    /\ db' = IF conn[c].inTxn THEN conn[c].image ELSE db
    /\ conn' = [conn EXCEPT ![c].open = FALSE, ![c].cursor = "closed",
                            ![c].lock = "none", ![c].inTxn = FALSE,
                            ![c].image = EmptyDb]
    /\ exc' = [exc EXCEPT ![c] = NoExc]
    /\ AttemptFailed(c, CursorExcept(exc[c]))
    /\ UNCHANGED <<schema, op, out>>

\* cursor() and connection() without their finally clauses: a failing
\* attempt leaves its cursor and connection open.
HandlerLeaks(c) ==
    /\ pc[c] = "except"
    /\ conn' = [conn EXCEPT ![c].lock = "none", ![c].inTxn = FALSE,
                            ![c].image = EmptyDb]
    /\ exc' = [exc EXCEPT ![c] = NoExc]
    /\ AttemptFailed(c, CursorExcept(exc[c]))
    /\ UNCHANGED <<schema, db, op, out>>

\* An exception inside the with-body: cursor()'s handler (conn.rollback(),
\* the log call), cursor.close(), conn.close(), then execute_query's except
\* clauses and tenacity.
Handler(c) ==
    /\ pc[c] = "except"
    /\ conn' = [conn EXCEPT ![c].open = FALSE, ![c].cursor = "closed",
                            ![c].lock = "none", ![c].inTxn = FALSE,
                            ![c].image = EmptyDb]
    /\ exc' = [exc EXCEPT ![c] = NoExc]
    /\ AttemptFailed(c, CursorExcept(exc[c]))
    /\ UNCHANGED <<schema, db, op, out>>

\* -------------------------------------------- the repository methods
\* add_user, add_transaction and add_session catch sqlite3.IntegrityError,
\* log it and return (lines 140, 168, 193); nothing else is caught.
Swallows(o, e) ==
    /\ o.name \in {"add_user", "add_transaction", "add_session"}
    /\ e.cls = "IntegrityError"

\* get_user and get_active_session take fetchone(), get_transactions and
\* get_popup_history fetchall() (lines 151, 179, 204, 239).
FetchesOne(o) == o.name \in {"get_user", "get_active_session"}

Fetches(o) ==
    o.name \in {"get_user", "get_active_session", "get_transactions",
                "get_popup_history"}

\* cursor.fetchone() / cursor.fetchall() on the cursor execute_query
\* returned: sqlite3 raises ProgrammingError on a cursor that was closed;
\* on an open one fetchone gives the first row or None (here <<>>) and
\* fetchall the list of rows.
Fetch(o, cn) ==
    IF cn.cursor # "open"
    THEN [status |-> "raised", exc |-> Exc("ProgrammingError", "", "fetch",
                                           "Cannot operate on a closed cursor."),
          value |-> <<>>]
    ELSE [status |-> "ok", exc |-> NoExc,
          value |-> IF FetchesOne(o) /\ cn.rows # <<>>
                    THEN <<Head(cn.rows)>> ELSE cn.rows]

\* The method's code around its execute_query call, given how that call
\* ended (r) and the cursor it returned (cn).
MethodResult(o, r, cn) ==
    IF r.status = "raised"
    THEN IF Swallows(o, r.exc)
         THEN [status |-> "ok", exc |-> NoExc, value |-> <<>>]
         ELSE [status |-> "raised", exc |-> r.exc, value |-> <<>>]
    ELSE IF Fetches(o)
         THEN Fetch(o, cn)
         ELSE [status |-> "ok", exc |-> NoExc, value |-> <<>>]

\* execute_query has returned or raised; the method finishes.
Finish(c) ==
    /\ pc[c] = "after"
    /\ out' = [out EXCEPT ![c] = MethodResult(op[c], res[c], conn[c])]
    /\ pc' = [pc EXCEPT ![c] = "done"]
    /\ UNCHANGED <<schema, db, op, attempt, fails, conn, exc, res>>

\* The caller takes the method's result; nothing of the call is kept.
Return(c) ==
    /\ pc[c] = "done"
    /\ pc' = [pc EXCEPT ![c] = "idle"]
    /\ op' = [op EXCEPT ![c] = NoOp]
    /\ attempt' = [attempt EXCEPT ![c] = 0]
    /\ fails' = [fails EXCEPT ![c] = <<>>]
    /\ conn' = [conn EXCEPT ![c] = NoConn]
    /\ res' = [res EXCEPT ![c] = NoRes]
    /\ out' = [out EXCEPT ![c] = NoOut]
    /\ UNCHANGED <<schema, db, exc>>

\* One step of a call in progress.
Step(c) ==
    \/ Connect(c)
    \/ Execute(c)
    \/ Commit(c)
    \/ Handler(c)
    \/ Finish(c)
    \/ Return(c)

\* Callers working on accounts: add_user and get_user.
Next ==
    \E c \in Callers :
        \/ InitializeDb(c)
        \/ \E o \in UserOps : Call(c, o)
        \/ Step(c)

Spec == Init /\ [][Next]_vars

\* Callers working on all four tables: one insert into each, and a read.
StoreOps ==
    {[NoOp EXCEPT !.name = "add_user", !.login = "alice", !.password = "p1"],
     [NoOp EXCEPT !.name = "get_user", !.login = "alice"],
     [NoOp EXCEPT !.name = "add_transaction", !.user_id = 1, !.amount = 10],
     [NoOp EXCEPT !.name = "add_session", !.tg_user_id = 42, !.login = "alice"],
     [NoOp EXCEPT !.name = "add_popup_history", !.user_id = 1,
                  !.transaction_id = 1, !.message = "paid"]}

NextStore ==
    \E c \in Callers :
        \/ InitializeDb(c)
        \/ \E o \in StoreOps : Call(c, o)
        \/ Step(c)

SpecStore == Init /\ [][NextStore]_vars

\* Callers working on login sessions: add_session, get_active_session and
\* deactivate_session for every external id, all sessions of one login.
SessionCalls == {o \in SessionOps : o.login \in {"", "alice"}}

NextSessions ==
    \E c \in Callers :
        \/ InitializeDb(c)
        \/ \E o \in SessionCalls : Call(c, o)
        \/ Step(c)

SpecSessions == Init /\ [][NextSessions]_vars

\* One caller working through all nine methods, one call after another.
SeqCaller == "c1"

SeqCalls ==
    {[NoOp EXCEPT !.name = "add_user", !.login = "alice", !.password = "p1"],
     [NoOp EXCEPT !.name = "add_user", !.login = "bob", !.password = "p2"],
     [NoOp EXCEPT !.name = "get_user", !.login = "alice"],
     [NoOp EXCEPT !.name = "add_transaction", !.user_id = 1, !.amount = 10],
     [NoOp EXCEPT !.name = "add_transaction", !.user_id = 2, !.amount = -3],
     [NoOp EXCEPT !.name = "get_transactions", !.user_id = 1],
     [NoOp EXCEPT !.name = "add_session", !.tg_user_id = 42, !.login = "alice"],
     [NoOp EXCEPT !.name = "add_session", !.tg_user_id = 43, !.login = "alice"],
     [NoOp EXCEPT !.name = "get_active_session", !.tg_user_id = 42],
     [NoOp EXCEPT !.name = "deactivate_session", !.tg_user_id = 42],
     [NoOp EXCEPT !.name = "deactivate_session", !.tg_user_id = 43],
     [NoOp EXCEPT !.name = "add_popup_history", !.user_id = 1,
                  !.transaction_id = 1, !.message = "paid"],
     [NoOp EXCEPT !.name = "get_popup_history", !.user_id = 1]}

NextSeq ==
    \/ InitializeDb(SeqCaller)
    \/ \E o \in SeqCalls : Call(SeqCaller, o)
    \/ Step(SeqCaller)

SpecSeq == Init /\ [][NextSeq]_vars

\* The caller's convention for logging in: add_session(X, L) is called only
\* right after a deactivate_session(X) that returned.  An exception out of
\* deactivate_session ends the caller's statement sequence, so add_session
\* does not follow it.
AddSessionAfter(c, o) ==
    /\ pc[c] = "done"
    /\ op[c].name = "deactivate_session"
    /\ out[c].status = "ok"
    /\ o.name = "add_session"
    /\ o.tg_user_id = op[c].tg_user_id
    /\ Len(db.users_login_state) < MaxRows
    /\ pc' = [pc EXCEPT ![c] = "connect"]
    /\ op' = [op EXCEPT ![c] = o]
    /\ attempt' = [attempt EXCEPT ![c] = 1]
    /\ fails' = [fails EXCEPT ![c] = <<>>]
    /\ conn' = [conn EXCEPT ![c] = NoConn]
    /\ res' = [res EXCEPT ![c] = NoRes]
    /\ out' = [out EXCEPT ![c] = NoOut]
    /\ UNCHANGED <<schema, db, exc>>

\* The session calls the convention leaves free.
ConvCalls == {o \in SessionOps : o.name # "add_session"}

NextConv ==
    \/ InitializeDb(SeqCaller)
    \/ \E o \in ConvCalls : Call(SeqCaller, o)
    \/ \E o \in SessionOps : AddSessionAfter(SeqCaller, o)
    \/ Step(SeqCaller)

SpecConv == Init /\ [][NextConv]_vars

\* A call in progress keeps stepping: the code is synchronous, every step
\* of a call is a library call that returns or raises, and wait_fixed(2)
\* ends.
FairSpec == Spec /\ \A c \in Callers : WF_vars(Step(c))

\* ------------------------------------------------------------- claims
\* The class of the store's own error behind an exception.
StoreCls(e) == IF e.context # "" THEN e.context ELSE e.cls

\* The attempt that raised e failed in the statement or its commit.
InStatement(e) == e.at \in {"execute", "commit"}

\* The store's error behind e is the transient one: the store was locked.
Transient(e) ==
    InStatement(e) /\ StoreCls(e) = "OperationalError" /\ e.msg = Locked

HasUser(users, login, password) ==
    \E i \in 1..Len(users) :
        /\ users[i].login = login
        /\ users[i].password = password
        /\ users[i].balance = 0

\* C1: round trip.  add_user(L, P) for a new login L leaves the row
\* (L, P, 0.0) in users, and a get_user(L) whose SELECT finds that row
\* returns normally with exactly it.
C1_RoundTrip ==
    \A c \in Callers :
        pc[c] = "done" =>
            /\ (op[c].name = "add_user" /\ res[c].status = "ok")
                  => HasUser(db.users, op[c].login, op[c].password)
            /\ (op[c].name = "get_user" /\ res[c].status = "ok"
                    /\ conn[c].rows # <<>>)
                  => /\ out[c].status = "ok"
                     /\ out[c].value = conn[c].rows
                     /\ Len(out[c].value) = 1
                     /\ out[c].value[1].login = op[c].login
                     /\ out[c].value[1].balance = 0

\* C2: when execute_query returns, the transaction is committed and the
\* handle it returns can still be fetched from (it is not closed).
C2_HandleUsable ==
    \A c \in Callers :
        (pc[c] = "after" /\ res[c].status = "ok")
            => /\ ~conn[c].inTxn
               /\ conn[c].cursor = "open"

\* C3: add_user with a login that is already in users returns normally
\* (the uniqueness violation does not reach the caller).
C3_DuplicateSwallowed ==
    \A c \in Callers :
        (/\ pc[c] = "done"
         /\ op[c].name = "add_user"
         /\ \E i \in 1..Len(fails[c]) : StoreCls(fails[c][i]) = "IntegrityError")
            => out[c].status = "ok"

\* C4: users holds at most one row for any login, whatever the callers do
\* and however their calls interleave.
C4_LoginUnique ==
    \A i, j \in 1..Len(db.users) :
        db.users[i].login = db.users[j].login => i = j

\* Two callers added the same login in overlapping calls: one committed the
\* row, the other's insert was refused.
C4_Witness ==
    \E c, d \in Callers :
        /\ c # d
        /\ pc[c] = "done" /\ pc[d] = "done"
        /\ op[c].name = "add_user" /\ op[d].name = "add_user"
        /\ op[c].login = op[d].login
        /\ res[c].status = "ok"
        /\ fails[d] # <<>>
        /\ StoreCls(fails[d][Len(fails[d])]) = "IntegrityError"

\* C5: an execute_query whose attempts so far failed only because the
\* store was busy, fewer than three times, does not give up: when it ends,
\* it ended by returning (the next attempt was made and succeeded), after
\* at most 3 attempts.
C5_TransientRetried ==
    \A c \in Callers :
        (/\ pc[c] = "after"
         /\ fails[c] # <<>>
         /\ Len(fails[c]) < MaxAttempts
         /\ \A i \in 1..Len(fails[c]) : Transient(fails[c][i]))
            => /\ res[c].status = "ok"
               /\ attempt[c] <= MaxAttempts

\* C6: the exception execute_query raises for a failed statement has the
\* class of the store's error; a failed statement never returns normally.
C6_SameClass ==
    \A c \in Callers :
        (/\ pc[c] = "after"
         /\ fails[c] # <<>>
         /\ InStatement(fails[c][Len(fails[c])])
         /\ attempt[c] = Len(fails[c]))
            => /\ res[c].status = "raised"
               /\ res[c].exc.cls = StoreCls(fails[c][Len(fails[c])])

\* C7: when all 3 attempts failed with OperationalError, the exception
\* that reaches the caller is that OperationalError itself.
C7_LastErrorPropagates ==
    \A c \in Callers :
        (/\ pc[c] = "after"
         /\ Len(fails[c]) = MaxAttempts
         /\ \A i \in 1..MaxAttempts : StoreCls(fails[c][i]) = "OperationalError")
            => /\ res[c].status = "raised"
               /\ res[c].exc.cls = "OperationalError"

\* C8: an attempt whose statement failed with an integrity violation, or
\* with any error other than the transient one, is the call's last
\* attempt: the error goes to the caller with no further attempt.
C8_NonTransientNotRetried ==
    \A c \in Callers :
        \A i \in 1..Len(fails[c]) :
            (InStatement(fails[c][i]) /\ ~Transient(fails[c][i]))
                => /\ i = Len(fails[c])
                   /\ attempt[c] = i
                   /\ pc[c] \in {"after", "done"}
                   /\ res[c].status = "raised"

\* An integrity violation on the first attempt ended the call after
\* exactly one attempt.
C8_Witness ==
    \E c \in Callers :
        /\ pc[c] = "after"
        /\ Len(fails[c]) = 1
        /\ StoreCls(fails[c][1]) = "IntegrityError"
        /\ attempt[c] = 1

\* C9: no execute_query makes more than 3 attempts, and every
\* execute_query that was started ends (returns or raises).
C9_BoundedRetry ==
    /\ [](\A c \in Callers : attempt[c] <= MaxAttempts /\ Len(fails[c]) <= MaxAttempts)
    /\ \A c \in Callers :
          (pc[c] \in {"connect", "execute", "exit", "except"}) ~> (pc[c] = "after")

\* The store refused every one of the 3 attempts and the call ended.
C9_Witness ==
    \E c \in Callers :
        /\ pc[c] = "after"
        /\ attempt[c] = MaxAttempts
        /\ Len(fails[c]) = MaxAttempts
        /\ res[c].status = "raised"

\* The step of caller c in which an attempt of its execute_query fails or
\* its failure is handled.
AttemptFails(c) ==
    \/ pc[c] \in {"execute", "exit"} /\ pc'[c] = "except"
    \/ pc[c] = "except" /\ pc'[c] \in {"connect", "after"}
    \/ pc[c] = "connect" /\ pc'[c] = "after"
    \/ pc[c] = "connect" /\ attempt'[c] = attempt[c] + 1

\* C10: a failing attempt changes nothing that is persisted: the four
\* tables are the same after the step in which the attempt fails and after
\* the step that handles the failure, and once handled nothing of the
\* attempt's transaction is left to be committed.
C10_RollbackOnFailure ==
    [][\A c \in Callers :
          AttemptFails(c) =>
              /\ db' = db
              /\ pc'[c] # "except" => (~conn'[c].inTxn /\ conn'[c].lock = "none")]_vars

\* A commit failed with the inserted row still pending in the transaction.
C10_Witness ==
    \E c \in Callers :
        /\ pc[c] = "except"
        /\ exc[c].at = "commit"
        /\ conn[c].inTxn
        /\ conn[c].image # db

\* C11: whenever no attempt of a caller is running (before a call, between
\* attempts, after execute_query ended), the cursor and the connection of
\* its earlier attempts are closed and hold no lock and no transaction:
\* every exit path of an attempt released them.
C11_ResourcesReleased ==
    \A c \in Callers :
        pc[c] \in {"idle", "connect", "after", "done"}
            => /\ ~conn[c].open
               /\ conn[c].cursor # "open"
               /\ conn[c].lock = "none"
               /\ ~conn[c].inTxn

\* An attempt that had opened a connection and a cursor failed in its
\* statement, and the call ended by raising.
C11_Witness ==
    \E c \in Callers :
        /\ pc[c] = "after"
        /\ res[c].status = "raised"
        /\ InStatement(res[c].exc)
        /\ conn[c].cursor = "closed"

\* The rows of users_login_state for external id tg.
SessionsOf(sessions, tg) ==
    {i \in 1..Len(sessions) : sessions[i].tg_user_id = tg}

\* C12: session lifecycle.  add_session(X, L) leaves a row for X, and a
\* get_active_session(X) whose SELECT ran returns normally: the active row
\* of X when there is one, absent (None) when there is none, as after
\* deactivate_session(X).
C12_SessionLifecycle ==
    \A c \in Callers :
        pc[c] = "done" =>
            /\ (op[c].name = "add_session" /\ res[c].status = "ok")
                  => SessionsOf(db.users_login_state, op[c].tg_user_id) # {}
            /\ (op[c].name = "get_active_session" /\ res[c].status = "ok")
                  => /\ out[c].status = "ok"
                     /\ conn[c].rows = <<>> => out[c].value = <<>>
                     /\ conn[c].rows # <<>>
                           => /\ out[c].value = <<Head(conn[c].rows)>>
                              /\ out[c].value[1].tg_user_id = op[c].tg_user_id
                              /\ out[c].value[1].active

\* The step in which caller c's statement is committed and execute_query
\* returns.
Commits(c) == pc[c] = "exit" /\ pc'[c] = "after"

\* C13: right after a successful deactivate_session(X), no row of
\* users_login_state with tg_user_id = X is active, however many there are.
C13_DeactivatesAll ==
    [][\A c \in Callers :
          (Commits(c) /\ op[c].name = "deactivate_session")
              => \A i \in SessionsOf(db'.users_login_state, op[c].tg_user_id) :
                    ~db'.users_login_state[i].active]_vars

\* deactivate_session(X) has run its UPDATE on two active sessions of X and
\* is about to commit it.
C13_Witness ==
    \E c \in Callers :
        /\ pc[c] = "exit"
        /\ op[c].name = "deactivate_session"
        /\ Cardinality(SessionsOf(db.users_login_state, op[c].tg_user_id)) >= 2
        /\ \A i \in SessionsOf(db.users_login_state, op[c].tg_user_id) :
              /\ db.users_login_state[i].active
              /\ ~conn[c].image.users_login_state[i].active

\* C20: a session row that is inactive stays inactive (and stays the same
\* row) in every step; an external id becomes active again only by a new
\* row.
C20_DeactivationPermanent ==
    [][\A i \in 1..Len(db.users_login_state) :
          ~db.users_login_state[i].active
              => /\ i <= Len(db'.users_login_state)
                 /\ db'.users_login_state[i] = db.users_login_state[i]]_vars

\* An external id with a deactivated session is active again through a
\* newer row, while a further deactivate_session for it is being committed.
C20_Witness ==
    \E i, j \in 1..Len(db.users_login_state) :
        /\ i < j
        /\ db.users_login_state[i].tg_user_id = db.users_login_state[j].tg_user_id
        /\ ~db.users_login_state[i].active
        /\ db.users_login_state[j].active
        /\ \E c \in Callers :
              /\ pc[c] = "exit"
              /\ op[c].name = "deactivate_session"
              /\ op[c].tg_user_id = db.users_login_state[i].tg_user_id

\* C14: ledger read-back.  A get_transactions(U) whose SELECT ran returns
\* normally with the transactions of U in insertion order, and with the
\* empty list when U has none.
C14_LedgerReadBack ==
    \A c \in Callers :
        (pc[c] = "done" /\ op[c].name = "get_transactions" /\ res[c].status = "ok")
            => /\ out[c].status = "ok"
               /\ LET T(r) == r.user_id = op[c].user_id
                  IN out[c].value = SelectSeq(db.users_transaction, T)

\* The tables the code only ever inserts into.
AppendOnly == {"users_transaction", "all_transaction_popup_history"}

\* C15: in every step, each committed row of users_transaction and of
\* all_transaction_popup_history is still there, unchanged.
C15_AppendOnly ==
    [][\A t \in AppendOnly :
          /\ Len(db'[t]) >= Len(db[t])
          /\ \A i \in 1..Len(db[t]) : db'[t][i] = db[t][i]]_vars

\* Both tables hold rows and a further add_transaction is about to commit.
C15_Witness ==
    \E c \in Callers :
        /\ pc[c] = "exit"
        /\ op[c].name = "add_transaction"
        /\ \A t \in AppendOnly : Len(db[t]) >= 1
        /\ Len(conn[c].image.users_transaction) > Len(db.users_transaction)

\* The ids of the committed rows of a table.
Ids(table) == {table[i].id : i \in 1..Len(table)}

\* C16: referential integrity.  Every transaction's user_id is the id of a
\* users row, and every popup entry's user_id and transaction_id are ids of
\* a users row and of a users_transaction row.
C16_ReferentialIntegrity ==
    /\ \A i \in 1..Len(db.users_transaction) :
          db.users_transaction[i].user_id \in Ids(db.users)
    /\ \A i \in 1..Len(db.all_transaction_popup_history) :
          /\ db.all_transaction_popup_history[i].user_id \in Ids(db.users)
          /\ db.all_transaction_popup_history[i].transaction_id
                \in Ids(db.users_transaction)

\* C18: no step of a deactivate_session(X) call changes users,
\* users_transaction or all_transaction_popup_history, adds or removes a
\* session row, or changes a session row whose tg_user_id is not X.
C18_DeactivateFrame ==
    [][\A c \in Callers :
          op[c].name = "deactivate_session"
              => /\ db'.users = db.users
                 /\ db'.users_transaction = db.users_transaction
                 /\ db'.all_transaction_popup_history
                        = db.all_transaction_popup_history
                 /\ Len(db'.users_login_state) = Len(db.users_login_state)
                 /\ \A i \in 1..Len(db.users_login_state) :
                       db.users_login_state[i].tg_user_id # op[c].tg_user_id
                           => db'.users_login_state[i] = db.users_login_state[i]]_vars

\* deactivate_session(X) has returned with X's session deactivated, while
\* another id has an active session and the other three tables hold rows.
C18_Witness ==
    \E c \in Callers :
        /\ pc[c] = "after"
        /\ op[c].name = "deactivate_session"
        /\ res[c].status = "ok"
        /\ db.users # <<>>
        /\ db.users_transaction # <<>>
        /\ db.all_transaction_popup_history # <<>>
        /\ \E i, j \in 1..Len(db.users_login_state) :
              /\ db.users_login_state[i].tg_user_id = op[c].tg_user_id
              /\ ~db.users_login_state[i].active
              /\ db.users_login_state[j].tg_user_id # op[c].tg_user_id
              /\ db.users_login_state[j].active

\* C19: every users row has balance 0.0.
C19_BalanceZero ==
    \A i \in 1..Len(db.users) : db.users[i].balance = 0

\* A user has a committed transaction of a non-zero amount.
C19_Witness ==
    \E i \in 1..Len(db.users), j \in 1..Len(db.users_transaction) :
        /\ db.users_transaction[j].user_id = db.users[i].id
        /\ db.users_transaction[j].amount # 0
        /\ db.users[i].balance = 0

\* The active sessions of external id tg.
ActiveOf(sessions, tg) ==
    {i \in SessionsOf(sessions, tg) : sessions[i].active}

\* C17: with one sequential caller that calls deactivate_session(X) right
\* before each add_session(X, L), every state between calls has at most one
\* active users_login_state row per external id.
C17_SingleActive ==
    pc[SeqCaller] \in {"idle", "done"}
        => \A t \in TgIds : Cardinality(ActiveOf(db.users_login_state, t)) <= 1

\* add_session(X, L) has returned for an id that already had a session:
\* the older row is inactive and the new one is the only active one.
C17_Witness ==
    /\ pc[SeqCaller] = "done"
    /\ op[SeqCaller].name = "add_session"
    /\ out[SeqCaller].status = "ok"
    /\ Cardinality(SessionsOf(db.users_login_state, op[SeqCaller].tg_user_id)) >= 2
    /\ Cardinality(ActiveOf(db.users_login_state, op[SeqCaller].tg_user_id)) = 1

====
